---- MODULE Spec2Model ----
(***************************************************************************)
(* Ledger accounting of the "cuan" router: accounts, categories and        *)
(* transactions of app/models/cuan.py, the validation and balance helpers  *)
(* of app/utils/cuan_helpers.py and the endpoints of app/routers/cuan.py.  *)
(*                                                                         *)
(* A table is a function from the primary keys of its rows to the rows.    *)
(* Decimal values are integers (whole currency units), Python's None is    *)
(* the value None. What an endpoint answers is a function of the tables and *)
(* the request: the *_check operators give the detail of the error a       *)
(* request raises, "ok" when it raises none.                               *)
(*                                                                         *)
(* Spec, SpecCategory and SpecUsers run every endpoint as one step on the  *)
(* tables, one request after the other. SpecRequests runs the requests of  *)
(* the worker threads side by side, a step per commit, and SpecQueries the *)
(* read-only endpoints on a stored ledger. SpecTransfers calls             *)
(* validate_transfer on a stored ledger, SpecUpdates serves the account    *)
(* and transaction endpoints of one user with card limits of 1 and 2.      *)
(***************************************************************************)
EXTENDS Integers, FiniteSets, Sequences, TLC

\* ------------------------------------------------------------------ bounds
\* Rows a table can hold: the pool of primary keys of each table.
MaxAccounts == 2
MaxCategories == 1
MaxTransactions == 2
\* Requests in flight at once: the worker threads that serve the endpoints.
MaxRequests == 2
\* Instants of a day: a datetime counts ticks, a tick standing for
\* timedelta(microseconds=1).
TicksPerDay == 3

\* Python's None / SQL NULL: a value outside every id and every amount.
None == -1000

\* calculate_account_balance called without its optional user_id.
NoUser == "None"

AccountIds == 1..MaxAccounts
CategoryIds == 1..MaxCategories
TransactionIds == 1..MaxTransactions
Workers == 1..MaxRequests

\* The authenticated users that send requests.
Users == {"u1", "u2"}

\* app/models/cuan.py enums.
TrxAccountType == {"bank_account", "credit_card", "other"}
TrxCategoryType == {"income", "expense"}
TransactionType == {"income", "expense", "transfer"}

\* TransactionCreate payloads: every combination of the given field values.
\* Any primary key of the pool may be named, whether or not a row has it.
TransactionCreate(Types, Amts, Fs, Cats, Dests) ==
    [ transaction_type : Types,
      amount : Amts,
      transfer_fee : Fs,
      account_id : AccountIds,
      category_id : Cats,
      destination_account_id : Dests ]

VARIABLES
    accounts,       \* cuan_accounts: id -> [type, limit, user_id]
    categories,     \* cuan_categories: id -> [name, type, user_id]
    transactions,   \* cuan_transactions: id -> [transaction_type, amount,
                    \*   transfer_fee, account_id, category_id,
                    \*   destination_account_id, user_id]
    requests        \* worker -> the request it serves: its endpoint, its
                    \*   position in the handler and what it holds, or
                    \*   the answer it was given

vars == <<accounts, categories, transactions, requests>>

\* The three tables: what db.commit() makes visible to every session.
tables == <<accounts, categories, transactions>>

\* A worker that serves no request.
Idle == [op |-> "idle"]

\* ----------------------------------------------------------------- helpers
\* func.sum over the rows S of the per-row value f[row id].
RECURSIVE SumOver(_, _)
SumOver(f, S) ==
    IF S = {} THEN 0
    ELSE LET x == CHOOSE y \in S : TRUE
         IN  f[x] + SumOver(f, S \ {x})

\* uuid.uuid4() for a new row of a table: a key no row of the table has.
FreeIds(table, pool) == pool \ DOMAIN table
NewId(table, pool) == CHOOSE i \in FreeIds(table, pool) :
                         \A j \in FreeIds(table, pool) : i <= j

\* The table with the row of key id removed.
Without(table, ids) == [i \in DOMAIN table \ ids |-> table[i]]

\* The table with row r stored under key id (an insert or a full update).
With(table, id, r) == [i \in DOMAIN table \cup {id} |->
                          IF i = id THEN r ELSE table[i]]

\* ------------------------------------------------------- validation helpers
\* The lookup of an account by its id alone, whoever owns it.
AccountFoundAnyOwner(id, user_id) == id \in DOMAIN accounts

\* validate_account: the user's account of that id, else 404.
AccountFound(id, user_id) ==
    id \in DOMAIN accounts /\ accounts[id].user_id = user_id

\* validate_category: None passes; else the user's category of that id.
CategoryFound(id, user_id) ==
    id = None \/ (id \in DOMAIN categories /\ categories[id].user_id = user_id)

\* validate_transaction_category_match: TRUE when no error is raised.
CategoryMatches(transaction_type, category_id) ==
    \/ category_id = None
    \/ /\ transaction_type = "income" => categories[category_id].type = "income"
       /\ transaction_type = "expense" => categories[category_id].type = "expense"

\* validate_transfer without its comparison of source and destination.
validate_transfer_same_account(transaction_type, destination_account_id, source_account_id, transfer_fee, user_id) ==
    IF transaction_type # "transfer"
    THEN IF transfer_fee = None THEN "TypeError"
         ELSE IF transfer_fee > 0
              THEN "Transfer fee can only be applied to transfer transactions"
              ELSE "ok"
    ELSE IF destination_account_id = None
         THEN "Destination account is required for transfers"
    ELSE IF transfer_fee = None THEN "TypeError"
    ELSE IF transfer_fee < 0 THEN "Transfer fee cannot be negative"
    ELSE IF ~AccountFound(destination_account_id, user_id)
         THEN "Destination account not found"
    ELSE "ok"

\* validate_transfer: the detail of the error it raises, "ok" when it
\* returns. A transfer_fee of None makes the comparison raise TypeError.
validate_transfer(transaction_type, destination_account_id, source_account_id, transfer_fee, user_id) ==
    IF transaction_type # "transfer"
    THEN IF transfer_fee = None THEN "TypeError"
         ELSE IF transfer_fee > 0
              THEN "Transfer fee can only be applied to transfer transactions"
              ELSE "ok"
    ELSE IF destination_account_id = None
         THEN "Destination account is required for transfers"
    ELSE IF transfer_fee = None THEN "TypeError"
    ELSE IF transfer_fee < 0 THEN "Transfer fee cannot be negative"
    ELSE IF source_account_id = destination_account_id
         THEN "Source and destination accounts cannot be the same for transfers"
    ELSE IF ~AccountFound(destination_account_id, user_id)
         THEN "Destination account not found"
    ELSE "ok"

\* The check of type and limit without its branch for the other types.
LimitCheckCreditCardOnly(account_type, limit) ==
    IF account_type = "credit_card" /\ limit = None
    THEN "Credit card accounts must have a limit."
    ELSE "ok"

\* The check of type and limit that prepare_account_for_db and
\* update_account both make: the detail of the error, "ok" when none.
LimitCheck(account_type, limit) ==
    IF account_type = "credit_card"
    THEN IF limit = None THEN "Credit card accounts must have a limit." ELSE "ok"
    ELSE IF limit # None THEN "Account type cannot have a limit" ELSE "ok"

\* ------------------------------------------------------------ balance
\* The aggregated rows without those the account is the destination of.
BalanceRowsSourceOnly(account_id, scope) ==
    { t \in DOMAIN transactions :
        /\ transactions[t].account_id = account_id
        /\ transactions[t].user_id = scope }

\* The rows calculate_account_balance aggregates: the account is the source
\* or the destination, and the row is the scoping user's.
BalanceRows(account_id, scope) ==
    { t \in DOMAIN transactions :
        /\ \/ transactions[t].account_id = account_id
           \/ transactions[t].destination_account_id = account_id
        /\ transactions[t].user_id = scope }

\* payable_balance with the subtraction the wrong way round.
PayableBalanceSwapped(account, balance) ==
    IF account.type = "credit_card" /\ account.limit # None
    THEN balance - account.limit
    ELSE None

\* payable_balance of calculate_account_balance.
PayableBalance(account, balance) ==
    IF account.type = "credit_card" /\ account.limit # None
    THEN account.limit - balance
    ELSE None

\* calculate_account_balance(db, account_id, user_id) for an account that
\* is found (user_id = NoUser: no user scope).
calculate_account_balance(account_id, user_id) ==
    LET account == accounts[account_id]
        scope == IF user_id # NoUser THEN user_id ELSE account.user_id
        rows == BalanceRows(account_id, scope)
        tx(t) == transactions[t]
        income == [t \in rows |->
            IF tx(t).transaction_type = "income" THEN tx(t).amount ELSE 0]
        expenses == [t \in rows |->
            IF tx(t).transaction_type = "expense" THEN tx(t).amount ELSE 0]
        transfers_out == [t \in rows |->
            IF tx(t).transaction_type = "transfer" /\ tx(t).account_id = account_id
            THEN tx(t).amount ELSE 0]
        transfer_fees == [t \in rows |->
            IF tx(t).transaction_type = "transfer" /\ tx(t).account_id = account_id
            THEN tx(t).transfer_fee ELSE 0]
        transfers_in == [t \in rows |->
            IF tx(t).destination_account_id = account_id THEN tx(t).amount ELSE 0]
        total_income == SumOver(income, rows)
        total_expenses == SumOver(expenses, rows)
        total_transfers_out == SumOver(transfers_out, rows)
        total_transfer_fees == SumOver(transfer_fees, rows)
        total_transfers_in == SumOver(transfers_in, rows)
        balance == total_income + total_transfers_in - total_expenses
                   - total_transfers_out - total_transfer_fees
    IN  [ balance |-> balance,
          total_income |-> total_income,
          total_expenses |-> total_expenses,
          total_transfers_in |-> total_transfers_in,
          total_transfers_out |-> total_transfers_out,
          total_transfer_fees |-> total_transfer_fees,
          payable_balance |-> PayableBalance(account, balance) ]

\* ------------------------------------------------------------ errors
\* A request that raises: the error goes to the caller before any db.add
\* or db.commit, so no table changes.
Raise(detail) == UNCHANGED tables

\* ------------------------------------------------------------ accounts
\* The "Other" income categories of the user that create_account looks for.
OtherCategories(user) ==
    { c \in DOMAIN categories :
        /\ categories[c].name = "Other"
        /\ categories[c].type = "income"
        /\ categories[c].user_id = user }

\* The initial transaction booked as an expense.
InitialTransactionAsExpense(account_id, limit, category_id, user) ==
    [ transaction_type |-> "expense",
      amount |-> limit,
      transfer_fee |-> 0,
      account_id |-> account_id,
      category_id |-> category_id,
      destination_account_id |-> None,
      user_id |-> user ]

\* The initial balancing transaction of a new credit card.
InitialTransaction(account_id, limit, category_id, user) ==
    [ transaction_type |-> "income",
      amount |-> limit,
      transfer_fee |-> 0,
      account_id |-> account_id,
      category_id |-> category_id,
      destination_account_id |-> None,
      user_id |-> user ]

\* POST /cuan/accounts
create_account(user, account) ==
    LET check == LimitCheck(account.type, account.limit)
    IN  IF check # "ok" THEN Raise(check)
        ELSE
        /\ FreeIds(accounts, AccountIds) # {}
        /\ LET id == NewId(accounts, AccountIds)
           IN
           /\ accounts' = With(accounts, id,
                [type |-> account.type, limit |-> account.limit, user_id |-> user])
           /\ IF account.type = "credit_card" /\ account.limit # None
              THEN
                /\ FreeIds(transactions, TransactionIds) # {}
                /\ IF OtherCategories(user) = {}
                   THEN
                     /\ FreeIds(categories, CategoryIds) # {}
                     /\ LET c == NewId(categories, CategoryIds)
                        IN
                        /\ categories' = With(categories, c,
                             [name |-> "Other", type |-> "income", user_id |-> user])
                        /\ transactions' = With(transactions,
                             NewId(transactions, TransactionIds),
                             InitialTransaction(id, account.limit, c, user))
                   ELSE
                     \* .first() without an order: any of the matching rows
                     /\ \E c \in OtherCategories(user) :
                          transactions' = With(transactions,
                             NewId(transactions, TransactionIds),
                             InitialTransaction(id, account.limit, c, user))
                     /\ UNCHANGED categories
              ELSE UNCHANGED <<categories, transactions>>

\* update_account booking the balancing income of a card, as create_account
\* does, when the account becomes a credit card.
update_account_rebalancing(user, id, account_update) ==
    IF ~AccountFound(id, user) THEN Raise("TrxAccount not found")
    ELSE LET check == LimitCheck(account_update.type, account_update.limit)
         IN  IF check # "ok" THEN Raise(check)
             ELSE
             /\ accounts' = With(accounts, id,
                  [type |-> account_update.type, limit |-> account_update.limit,
                   user_id |-> accounts[id].user_id])
             /\ IF /\ account_update.type = "credit_card"
                   /\ accounts[id].type # "credit_card"
                   /\ FreeIds(transactions, TransactionIds) # {}
                THEN transactions' = With(transactions,
                        NewId(transactions, TransactionIds),
                        InitialTransaction(id, account_update.limit, None, user))
                ELSE UNCHANGED transactions
             /\ UNCHANGED categories

\* update_account committing the new fields before its check of type and
\* limit.
update_account_commit_first(user, id, account_update) ==
    IF ~AccountFound(id, user) THEN Raise("TrxAccount not found")
    ELSE
    /\ accounts' = With(accounts, id,
         [type |-> account_update.type, limit |-> account_update.limit,
          user_id |-> accounts[id].user_id])
    /\ UNCHANGED <<categories, transactions>>

\* PUT /cuan/accounts/{id}
update_account(user, id, account_update) ==
    IF ~AccountFound(id, user) THEN Raise("TrxAccount not found")
    ELSE LET check == LimitCheck(account_update.type, account_update.limit)
         IN  IF check # "ok" THEN Raise(check)
             ELSE
             /\ accounts' = With(accounts, id,
                  [type |-> account_update.type, limit |-> account_update.limit,
                   user_id |-> accounts[id].user_id])
             /\ UNCHANGED <<categories, transactions>>

\* The cascade alone: the rows the account is the destination of keep
\* naming it.
AccountDeletedCascadeOnly(id) ==
    [ t \in { t \in DOMAIN transactions : transactions[t].account_id # id } |->
        transactions[t] ]

\* The foreign keys of cuan_transactions when the account row id goes:
\* account_id ON DELETE CASCADE, destination_account_id ON DELETE SET NULL.
AccountDeleted(id) ==
    [ t \in { t \in DOMAIN transactions : transactions[t].account_id # id } |->
        IF transactions[t].destination_account_id = id
        THEN [transactions[t] EXCEPT !.destination_account_id = None]
        ELSE transactions[t] ]

\* DELETE /cuan/accounts/{id}
delete_account(user, id) ==
    IF ~AccountFound(id, user) THEN Raise("TrxAccount not found")
    ELSE
    /\ accounts' = Without(accounts, {id})
    /\ transactions' = AccountDeleted(id)
    /\ UNCHANGED categories

\* ------------------------------------------------------------ categories
\* POST /cuan/categories
create_category(user, category) ==
    /\ FreeIds(categories, CategoryIds) # {}
    /\ LET id == NewId(categories, CategoryIds)
       IN
       /\ categories' = With(categories, id,
            [name |-> category.name, type |-> category.type, user_id |-> user])
    /\ UNCHANGED <<accounts, transactions>>

\* PUT /cuan/categories/{id}
update_category(user, id, category_update) ==
    IF ~(id \in DOMAIN categories /\ categories[id].user_id = user)
    THEN Raise("TrxCategory not found")
    ELSE
    /\ categories' = With(categories, id,
         [name |-> category_update.name, type |-> category_update.type,
          user_id |-> categories[id].user_id])
    /\ UNCHANGED <<accounts, transactions>>

\* The foreign key of cuan_transactions when the category row id goes:
\* category_id ON DELETE SET NULL.
CategoryDeleted(id) ==
    [ t \in DOMAIN transactions |->
        IF transactions[t].category_id = id
        THEN [transactions[t] EXCEPT !.category_id = None]
        ELSE transactions[t] ]

\* DELETE /cuan/categories/{id}
delete_category(user, id) ==
    IF ~(id \in DOMAIN categories /\ categories[id].user_id = user)
    THEN Raise("TrxCategory not found")
    ELSE
    /\ categories' = Without(categories, {id})
    /\ transactions' = CategoryDeleted(id)
    /\ UNCHANGED accounts

\* ---------------------------------------------------------- transactions
\* validate_transaction_category_match: the detail of the error it raises.
CategoryMatchError(transaction_type) ==
    IF transaction_type = "income"
    THEN "Income transactions must use an income category"
    ELSE "Expense transactions must use an expense category"

\* The credit-card guard that stops nothing.
NoAvailableBalanceUnchecked(account_id) == FALSE

\* The guard letting a card with balance zero through.
NoAvailableBalanceBelowZero(account_id) ==
    calculate_account_balance(account_id, NoUser).balance < 0

\* The credit-card guard of create_transaction: the current balance of the
\* card leaves nothing available.
NoAvailableBalance(account_id) ==
    calculate_account_balance(account_id, NoUser).balance <= 0

\* The foreign keys of the row a payload would store: the destination, which
\* validate_transfer resolves for transfers only, must name an account row.
ForeignKeysHold(transaction) ==
    \/ transaction.destination_account_id = None
    \/ transaction.destination_account_id \in DOMAIN accounts

\* prepare_transaction_for_db: the row of a payload.
TransactionRow(transaction, user) ==
    [ transaction_type |-> transaction.transaction_type,
      amount |-> transaction.amount,
      transfer_fee |-> transaction.transfer_fee,
      account_id |-> transaction.account_id,
      category_id |-> transaction.category_id,
      destination_account_id |-> transaction.destination_account_id,
      user_id |-> user ]

\* The validations of create_transaction in their order: the detail of the
\* first error raised, "ok" when the row is stored.
create_transaction_check(user, transaction) ==
    IF ~AccountFound(transaction.account_id, user)
    THEN "TrxAccount not found"
    ELSE IF ~CategoryFound(transaction.category_id, user)
    THEN "TrxCategory not found"
    ELSE IF ~CategoryMatches(transaction.transaction_type, transaction.category_id)
    THEN CategoryMatchError(transaction.transaction_type)
    ELSE IF /\ transaction.transaction_type = "expense"
            /\ accounts[transaction.account_id].type = "credit_card"
            /\ NoAvailableBalance(transaction.account_id)
    THEN "Cannot create expense with this credit card - no available balance"
    ELSE LET transfer == validate_transfer(transaction.transaction_type,
                            transaction.destination_account_id,
                            transaction.account_id, transaction.transfer_fee, user)
         IN  IF transfer # "ok" THEN transfer
             ELSE IF ~ForeignKeysHold(transaction) THEN "IntegrityError"
             ELSE "ok"

\* POST /cuan/transactions
create_transaction(user, transaction) ==
    LET check == create_transaction_check(user, transaction)
    IN  IF check # "ok" THEN Raise(check)
        ELSE
        /\ FreeIds(transactions, TransactionIds) # {}
        /\ LET id == NewId(transactions, TransactionIds)
           IN
           /\ transactions' = With(transactions, id, TransactionRow(transaction, user))
        /\ UNCHANGED <<accounts, categories>>

\* The credit-card guard of update_transaction: TRUE when it raises.
InsufficientForUpdate(existing_transaction, transaction_update) ==
    /\ transaction_update.transaction_type = "expense"
    /\ accounts[transaction_update.account_id].type = "credit_card"
    /\ \/ existing_transaction.transaction_type # "expense"
       \/ transaction_update.amount > existing_transaction.amount
    /\ LET balance == calculate_account_balance(transaction_update.account_id, NoUser).balance
           adjusted_balance ==
               IF /\ existing_transaction.transaction_type = "expense"
                  /\ existing_transaction.account_id = transaction_update.account_id
               THEN balance + existing_transaction.amount
               ELSE balance
       IN  adjusted_balance - transaction_update.amount < 0

\* The validations of update_transaction in their order.
update_transaction_check(user, id, transaction_update) ==
    IF ~(id \in DOMAIN transactions /\ transactions[id].user_id = user)
    THEN "Transaction not found"
    ELSE IF ~AccountFound(transaction_update.account_id, user)
    THEN "TrxAccount not found"
    ELSE IF ~CategoryFound(transaction_update.category_id, user)
    THEN "TrxCategory not found"
    ELSE IF ~CategoryMatches(transaction_update.transaction_type, transaction_update.category_id)
    THEN CategoryMatchError(transaction_update.transaction_type)
    ELSE IF InsufficientForUpdate(transactions[id], transaction_update)
    THEN "Insufficient credit card balance for this update"
    ELSE LET transfer == validate_transfer(transaction_update.transaction_type,
                            transaction_update.destination_account_id,
                            transaction_update.account_id,
                            transaction_update.transfer_fee, user)
         IN  IF transfer # "ok" THEN transfer
             ELSE IF ~ForeignKeysHold(transaction_update) THEN "IntegrityError"
             ELSE "ok"

\* update_transaction keeping the stored destination when the payload
\* names none.
update_transaction_keep_destination(user, id, transaction_update) ==
    LET check == update_transaction_check(user, id, transaction_update)
    IN  IF check # "ok" THEN Raise(check)
        ELSE
        /\ transactions' = With(transactions, id,
             [ TransactionRow(transaction_update, transactions[id].user_id)
                 EXCEPT !.destination_account_id =
                     IF transaction_update.destination_account_id = None
                     THEN transactions[id].destination_account_id
                     ELSE transaction_update.destination_account_id ])
        /\ UNCHANGED <<accounts, categories>>

\* PUT /cuan/transactions/{id}
update_transaction(user, id, transaction_update) ==
    LET check == update_transaction_check(user, id, transaction_update)
    IN  IF check # "ok" THEN Raise(check)
        ELSE
        /\ transactions' = With(transactions, id,
             TransactionRow(transaction_update, transactions[id].user_id))
        /\ UNCHANGED <<accounts, categories>>

\* DELETE /cuan/transactions/{id}
delete_transaction(user, id) ==
    IF ~(id \in DOMAIN transactions /\ transactions[id].user_id = user)
    THEN Raise("Transaction not found")
    ELSE
    /\ transactions' = Without(transactions, {id})
    /\ UNCHANGED <<accounts, categories>>

\* ------------------------------------------------------------ account lists
\* The rows get_accounts_with_balance joins to an account: the account is
\* their source or their destination. The join has no condition on the
\* user of the row.
JoinedRows(account_id) ==
    { t \in DOMAIN transactions :
        \/ transactions[t].account_id = account_id
        \/ transactions[t].destination_account_id = account_id }

\* get_accounts_with_balance(db, user_id): for every account of the user
\* the totals of its group, its balance and its payable balance.
get_accounts_with_balance(user_id) ==
    [ account_id \in { a \in DOMAIN accounts : accounts[a].user_id = user_id } |->
        LET account == accounts[account_id]
            rows == JoinedRows(account_id)
            tx(t) == transactions[t]
            income == [t \in rows |->
                IF tx(t).transaction_type = "income" THEN tx(t).amount ELSE 0]
            expenses == [t \in rows |->
                IF tx(t).transaction_type = "expense" THEN tx(t).amount ELSE 0]
            transfers_out == [t \in rows |->
                IF tx(t).transaction_type = "transfer" /\ tx(t).account_id = account_id
                THEN tx(t).amount ELSE 0]
            transfer_fees == [t \in rows |->
                IF tx(t).transaction_type = "transfer" /\ tx(t).account_id = account_id
                THEN tx(t).transfer_fee ELSE 0]
            transfers_in == [t \in rows |->
                IF tx(t).destination_account_id = account_id THEN tx(t).amount ELSE 0]
            total_income == SumOver(income, rows)
            total_expenses == SumOver(expenses, rows)
            total_transfers_out == SumOver(transfers_out, rows)
            total_transfer_fees == SumOver(transfer_fees, rows)
            total_transfers_in == SumOver(transfers_in, rows)
            balance == total_income + total_transfers_in - total_expenses
                       - total_transfers_out - total_transfer_fees
        IN  [ balance |-> balance,
              total_income |-> total_income,
              total_expenses |-> total_expenses,
              total_transfers_in |-> total_transfers_in,
              total_transfers_out |-> total_transfers_out,
              total_transfer_fees |-> total_transfer_fees,
              payable_balance |->
                  IF account.type = "credit_card" /\ account.limit # None
                  THEN account.limit - balance
                  ELSE None ] ]

\* get_account_summary: the sums over the list of get_accounts_with_balance.
\* A quotient is kept as its numerator and denominator; the order of the
\* accounts in the answer is left out.
get_account_summary(user) ==
    LET accounts_data == get_accounts_with_balance(user)
        ids == DOMAIN accounts_data
        cards == { a \in ids : /\ accounts[a].type = "credit_card"
                               /\ accounts[a].limit # None }
        balance == [a \in ids |-> accounts_data[a].balance]
        available == [a \in cards |->
            IF accounts[a].limit - accounts_data[a].payable_balance > 0
            THEN accounts[a].limit - accounts_data[a].payable_balance ELSE 0]
        limit == [a \in cards |-> accounts[a].limit]
        total_available_credit == SumOver(available, cards)
        total_credit_limit == SumOver(limit, cards)
        OfType(type) == { a \in ids : accounts[a].type = type }
    IN  [ total_balance |-> SumOver(balance, ids),
          available_credit |-> total_available_credit,
          credit_utilization |->
              IF total_credit_limit > 0
              THEN [num |-> (total_credit_limit - total_available_credit) * 100,
                    den |-> total_credit_limit]
              ELSE [num |-> 0, den |-> 1],
          by_account_type |->
              [ type \in TrxAccountType |-> SumOver(balance, OfType(type)) ],
          accounts |->
              [ a \in ids |->
                  [ summary |-> accounts_data[a],
                    utilization_percentage |->
                        IF /\ accounts[a].limit # None
                           /\ accounts[a].limit # 0
                           /\ accounts_data[a].payable_balance # None
                        THEN [num |-> accounts_data[a].payable_balance * 100,
                              den |-> accounts[a].limit]
                        ELSE None ] ] ]

\* The lookups the remaining handlers open with: the detail of the 404.
get_account_balance_check(user, id) ==
    IF ~AccountFound(id, user) THEN "TrxAccount not found"
    ELSE IF ~(id \in DOMAIN accounts /\ accounts[id].user_id = user)
    THEN "TrxAccount not found"
    ELSE "ok"
delete_account_check(user, id) ==
    IF ~AccountFound(id, user) THEN "TrxAccount not found" ELSE "ok"
category_check(user, id) ==
    IF ~(id \in DOMAIN categories /\ categories[id].user_id = user)
    THEN "TrxCategory not found" ELSE "ok"
delete_transaction_check(user, id) ==
    IF ~(id \in DOMAIN transactions /\ transactions[id].user_id = user)
    THEN "Transaction not found" ELSE "ok"

\* ------------------------------------------------------------ the system
\* The empty tables of a fresh database, before any request.
Init ==
    /\ accounts = [i \in {} |-> 0]
    /\ categories = [i \in {} |-> 0]
    /\ transactions = [i \in {} |-> 0]
    /\ requests = [w \in Workers |-> Idle]

\* A handler served from its first statement to its return with no other
\* request in between: no worker holds a request before or after it.
Serial(handler) == handler /\ UNCHANGED requests

\* One request of one of the senders, its payload drawn from the given sets.
NextOn(Senders, AccountPayloads, CategoryPayloads, TransactionPayloads) ==
    \E user \in Senders :
        \/ \E account \in AccountPayloads : Serial(create_account(user, account))
        \/ \E id \in AccountIds, account \in AccountPayloads :
              Serial(update_account(user, id, account))
        \/ \E id \in AccountIds : Serial(delete_account(user, id))
        \/ \E category \in CategoryPayloads : Serial(create_category(user, category))
        \/ \E id \in CategoryIds, category \in CategoryPayloads :
              Serial(update_category(user, id, category))
        \/ \E id \in CategoryIds : Serial(delete_category(user, id))
        \/ \E transaction \in TransactionPayloads :
              Serial(create_transaction(user, transaction))
        \/ \E id \in TransactionIds, transaction \in TransactionPayloads :
              Serial(update_transaction(user, id, transaction))
        \/ \E id \in TransactionIds : Serial(delete_transaction(user, id))

\* --- Spec: one user; every transaction type, destination and fee sign, no
\* category named by a transaction payload.
AccountPayloads == [type : {"bank_account", "credit_card"}, limit : {None, 1}]
CategoryPayloads == [name : {"Other", "Food"}, type : TrxCategoryType]
TransactionPayloads ==
    TransactionCreate(TransactionType, {1}, {-1, 0, 1}, {None}, AccountIds \cup {None})

Next == NextOn({"u1"}, AccountPayloads, CategoryPayloads, TransactionPayloads)

Spec == Init /\ [][Next]_vars

\* --- SpecCategory: one user; transaction payloads that name a category.
CategorizedPayloads ==
    TransactionCreate(TransactionType, {1}, {0}, CategoryIds \cup {None},
                      AccountIds \cup {None})

NextCategory == NextOn({"u1"}, AccountPayloads, CategoryPayloads, CategorizedPayloads)

SpecCategory == Init /\ [][NextCategory]_vars

\* --- SpecUsers: two users, each naming any account of the pool.
UserAccountPayloads == [type : TrxAccountType, limit : {None, 1}]
UserCategoryPayloads == [name : {"Other", "Food"}, type : {"income"}]
UserTransactionPayloads ==
    TransactionCreate(TransactionType, {1}, {0}, {None}, AccountIds \cup {None})

NextUsers ==
    NextOn(Users, UserAccountPayloads, UserCategoryPayloads, UserTransactionPayloads)

SpecUsers == Init /\ [][NextUsers]_vars

\* --- SpecRequests: the requests of one user served side by side by the
\* worker threads. Every db.commit() is a step of its own: the tables a
\* request reads are the tables as the commits of the others left them.
\* create_account commits up to three times, create_transaction reads
\* (validations, balance guard) and then commits.

\* Primary keys for the transactions of SpecRequests: room for the initial
\* transaction of a card and one more row for each request in flight.
RequestTransactionIds == 1..(MaxTransactions + 1)

\* The keys that requests in flight hold: a uuid4 is never given twice, so a
\* new row gets none of them.
HeldIds(field) ==
    { requests[w][field] : w \in { v \in Workers : field \in DOMAIN requests[v] } }

\* uuid.uuid4() for a new row while other requests are in flight.
FreshId(table, pool, field) ==
    CHOOSE i \in FreeIds(table, pool) \ HeldIds(field) :
        \A j \in FreeIds(table, pool) \ HeldIds(field) : i <= j

\* The request of worker w moves on; the other workers stay where they are.
Serve(w, request) == requests' = [requests EXCEPT ![w] = request]

\* create_account up to its first commit: the check of type and limit, then
\* the account row. A credit card goes on to its initial transaction.
create_account_commit(w, user, account) ==
    /\ requests[w] = Idle
    /\ LET check == LimitCheck(account.type, account.limit)
       IN  IF check # "ok" THEN Raise(check) /\ UNCHANGED requests
           ELSE
           /\ FreeIds(accounts, AccountIds) \ HeldIds("account_id") # {}
           /\ LET id == FreshId(accounts, AccountIds, "account_id")
              IN
              /\ accounts' = With(accounts, id,
                   [type |-> account.type, limit |-> account.limit, user_id |-> user])
              /\ UNCHANGED <<categories, transactions>>
              /\ IF account.type = "credit_card" /\ account.limit # None
                 THEN Serve(w, [op |-> "create_account", pc |-> "other_category",
                                user |-> user, account_id |-> id,
                                limit |-> account.limit])
                 ELSE UNCHANGED requests

\* create_account from the lookup of the user's "Other" income category to
\* the commit of a new one when none is found.
create_account_other_category(w) ==
    /\ requests[w] # Idle
    /\ requests[w].op = "create_account"
    /\ requests[w].pc = "other_category"
    /\ LET user == requests[w].user
       IN  IF OtherCategories(user) = {}
           THEN
             /\ FreeIds(categories, CategoryIds) \ HeldIds("category_id") # {}
             /\ LET c == FreshId(categories, CategoryIds, "category_id")
                IN
                /\ categories' = With(categories, c,
                     [name |-> "Other", type |-> "income", user_id |-> user])
                /\ Serve(w, [op |-> "create_account", pc |-> "initial_tx",
                              user |-> user, account_id |-> requests[w].account_id,
                              limit |-> requests[w].limit, category_id |-> c])
             /\ UNCHANGED <<accounts, transactions>>
           ELSE
             /\ \E c \in OtherCategories(user) :
                  Serve(w, [op |-> "create_account", pc |-> "initial_tx",
                            user |-> user, account_id |-> requests[w].account_id,
                            limit |-> requests[w].limit, category_id |-> c])
             /\ UNCHANGED tables

\* create_account's last commit: the initial transaction. The commit fails
\* (IntegrityError) and stores nothing when the account or the category it
\* names was deleted meanwhile; the request is over either way.
create_account_initial_tx(w) ==
    /\ requests[w] # Idle
    /\ requests[w].op = "create_account"
    /\ requests[w].pc = "initial_tx"
    /\ IF /\ requests[w].account_id \in DOMAIN accounts
          /\ requests[w].category_id \in DOMAIN categories
       THEN
         /\ FreeIds(transactions, RequestTransactionIds) # {}
         /\ transactions' = With(transactions,
               NewId(transactions, RequestTransactionIds),
               InitialTransaction(requests[w].account_id, requests[w].limit,
                                  requests[w].category_id, requests[w].user))
         /\ UNCHANGED <<accounts, categories>>
       ELSE Raise("IntegrityError")
    /\ Serve(w, Idle)

\* create_transaction up to validate_transfer: every validation, with the
\* balance the credit-card guard read (None when the guard does not apply).
create_transaction_validate(w, user, transaction) ==
    /\ requests[w] = Idle
    /\ UNCHANGED tables
    /\ LET check == create_transaction_check(user, transaction)
       IN  IF check # "ok" THEN UNCHANGED requests
           ELSE Serve(w, [op |-> "create_transaction", pc |-> "commit",
                          user |-> user, transaction |-> transaction,
                          balance |->
                            IF /\ transaction.transaction_type = "expense"
                               /\ accounts[transaction.account_id].type = "credit_card"
                            THEN calculate_account_balance(transaction.account_id, NoUser).balance
                            ELSE None])

\* create_transaction's db.add and db.commit: no validation is made again.
\* The commit fails (IntegrityError) when an account the row names was
\* deleted meanwhile.
create_transaction_commit(w) ==
    /\ requests[w] # Idle
    /\ requests[w].op = "create_transaction"
    /\ requests[w].pc = "commit"
    /\ IF /\ requests[w].transaction.account_id \in DOMAIN accounts
          /\ ForeignKeysHold(requests[w].transaction)
       THEN
         /\ FreeIds(transactions, RequestTransactionIds) # {}
         /\ transactions' = With(transactions,
               NewId(transactions, RequestTransactionIds),
               TransactionRow(requests[w].transaction, requests[w].user))
         /\ UNCHANGED <<accounts, categories>>
       ELSE Raise("IntegrityError")
    /\ Serve(w, Idle)

RequestAccountPayloads == [type : {"bank_account", "credit_card"}, limit : {None, 1}]
RequestTransactionPayloads ==
    TransactionCreate({"expense"}, {1}, {0}, {None}, {None})

NextRequests ==
    \E w \in Workers :
        \/ \E account \in RequestAccountPayloads : create_account_commit(w, "u1", account)
        \/ create_account_other_category(w)
        \/ create_account_initial_tx(w)
        \/ \E transaction \in RequestTransactionPayloads :
              create_transaction_validate(w, "u1", transaction)
        \/ create_transaction_commit(w)
        \/ \E id \in AccountIds :
              requests[w] = Idle /\ Serial(delete_account("u1", id))
        \/ \E id \in CategoryIds :
              requests[w] = Idle /\ Serial(delete_category("u1", id))

SpecRequests == Init /\ [][NextRequests]_vars

\* ------------------------------------------------------------ datetimes
\* A str is the sequence of its characters. str.lower() on the letters in
\* use: the capitals go to their small letters, every other character stays.
LowerCase ==
    [ c \in {"A", "D", "E", "I", "L", "V", "W", "Y"} |->
        CASE c = "A" -> "a" [] c = "D" -> "d" [] c = "E" -> "e" [] c = "I" -> "i"
          [] c = "L" -> "l" [] c = "V" -> "v" [] c = "W" -> "w" [] c = "Y" -> "y" ]
lower(str) ==
    [ i \in 1..Len(str) |->
        IF str[i] \in DOMAIN LowerCase THEN LowerCase[str[i]] ELSE str[i] ]

\* The proleptic Gregorian calendar of datetime: leap years, the days of a
\* month (calendar.monthrange) and the days from datetime(2000, 1, 1) on.
EpochYear == 2000
isleap(year) == (year % 4 = 0 /\ year % 100 # 0) \/ year % 400 = 0
monthrange_no_leap(year, month) ==
    IF month = 2 THEN 28
    ELSE IF month \in {4, 6, 9, 11} THEN 30 ELSE 31
monthrange(year, month) ==
    IF month = 2 THEN (IF isleap(year) THEN 29 ELSE 28)
    ELSE IF month \in {4, 6, 9, 11} THEN 30 ELSE 31

RECURSIVE DaysBeforeYear(_)
DaysBeforeYear(year) ==
    IF year <= EpochYear THEN 0
    ELSE DaysBeforeYear(year - 1) + (IF isleap(year - 1) THEN 366 ELSE 365)

RECURSIVE DaysBeforeMonth(_, _)
DaysBeforeMonth(year, month) ==
    IF month <= 1 THEN 0
    ELSE DaysBeforeMonth(year, month - 1) + monthrange(year, month - 1)

\* The days from the epoch to a date, and date.weekday(): Monday is 0, and
\* datetime(2000, 1, 1) was a Saturday.
toordinal(year, month, day) ==
    DaysBeforeYear(year) + DaysBeforeMonth(year, month) + (day - 1)
weekday(year, month, day) == (toordinal(year, month, day) + 5) % 7

\* A datetime of calendar fields as ticks from datetime(2000, 1, 1, tzinfo=UTC).
Ticks(year, month, day, tick) == toordinal(year, month, day) * TicksPerDay + tick
timedelta(days) == days * TicksPerDay

\* The period tokens of calculate_date_range.
Day == <<"d", "a", "y">>
Week == <<"w", "e", "e", "k">>
Month == <<"m", "o", "n", "t", "h">>
Year == <<"y", "e", "a", "r">>
All == <<"a", "l", "l">>

\* calculate_date_range(period) when datetime.now(UTC) is now, a record of
\* year, month, day and tick: start_date and end_date in ticks, or the
\* ValueError it raises.
calculate_date_range(period, now) ==
    LET token == lower(period)
        midnight == Ticks(now.year, now.month, now.day, 0)
    IN  IF token = Day
        THEN [ start_date |-> midnight,
               end_date |-> midnight + timedelta(1) - 1 ]
        ELSE IF token = Week
        THEN LET start_date ==
                   midnight - timedelta(weekday(now.year, now.month, now.day))
             IN  [ start_date |-> start_date,
                   end_date |-> start_date + timedelta(7) - 1 ]
        ELSE IF token = Month
        THEN LET start_date == Ticks(now.year, now.month, 1, 0)
                 last_day == monthrange(now.year, now.month)
             IN  [ start_date |-> start_date,
                   end_date |-> Ticks(now.year, now.month, last_day, 0)
                                  + timedelta(1) - 1 ]
        ELSE IF token = Year
        THEN [ start_date |-> Ticks(now.year, 1, 1, 0),
               end_date |-> Ticks(now.year + 1, 1, 1, 0) - 1 ]
        ELSE IF token = All
        THEN [ start_date |-> Ticks(EpochYear, 1, 1, 0),
               end_date |-> Ticks(now.year, now.month, now.day, now.tick) ]
        ELSE [raises |-> "ValueError"]

\* --- SpecDates: calculate_date_range called with each token at each
\* reading of the clock, one call at a time.

\* A worker that holds the answer to its request until the session closes.
Returned(w) == requests[w] # Idle /\ requests[w].pc = "returned"

\* get_db's finally: the answer is sent and the session closed.
close(w) ==
    /\ Returned(w)
    /\ Serve(w, Idle)
    /\ UNCHANGED tables

\* What datetime.now(UTC) reads: the days of the months around the turn of
\* a leap year and of the year after it, at every tick.
ClockYears == {2024, 2025}
ClockMonths == {1, 2, 3, 12}
Clock ==
    { now \in [year : ClockYears, month : ClockMonths, day : 1..31,
               tick : 0..(TicksPerDay - 1)] :
        now.day <= monthrange(now.year, now.month) }

\* The tokens a caller sends: the five periods, spelled in small letters,
\* in capitals or mixed, and others.
Periods ==
    { Day, Week, Month, Year, All,
      <<"D", "A", "Y">>, <<"W", "e", "e", "k">>, <<"A", "l", "l">>, <<"Y", "E", "A", "R">>,
      <<"d", "a", "y", "s">>, <<"a", "l">>, <<>> }

\* No worker serves a request.
AllIdle == \A v \in Workers : requests[v] = Idle

\* One call of calculate_date_range.
date_range(w, period, now) ==
    /\ Serve(w, [op |-> "calculate_date_range", pc |-> "returned",
                  period |-> period, now |-> now,
                  result |-> calculate_date_range(period, now)])
    /\ UNCHANGED tables

NextDates ==
    \E w \in Workers :
        \/ AllIdle /\ \E period \in Periods, now \in Clock : date_range(w, period, now)
        \/ close(w)

SpecDates == Init /\ [][NextDates]_vars

\* ------------------------------------------------------------ queries
\* Column.ilike(pattern): the pattern matches the whole string, letters
\* compared without case, "%" standing for any string and "_" for any one
\* character.
RECURSIVE ilike(_, _)
ilike(str, pattern) ==
    IF pattern = <<>> THEN str = <<>>
    ELSE IF Head(pattern) = "%"
    THEN ilike(str, Tail(pattern)) \/ (str # <<>> /\ ilike(Tail(str), pattern))
    ELSE /\ str # <<>>
         /\ Head(pattern) = "_" \/ lower(<<Head(pattern)>>) = lower(<<Head(str)>>)
         /\ ilike(Tail(str), Tail(pattern))

\* The rows of a table of the user whose name contains the given string:
\* name.ilike(f"%{name}%").
NamedLike(table, user_id, name) ==
    { i \in DOMAIN table :
        /\ table[i].user_id = user_id
        /\ ilike(table[i].name, <<"%">> \o name \o <<"%">>) }

\* TransactionType(value): the member of that value, or the ValueError.
TransactionTypeOf(value) ==
    IF value = <<"i", "n", "c", "o", "m", "e">> THEN "income"
    ELSE IF value = <<"e", "x", "p", "e", "n", "s", "e">> THEN "expense"
    ELSE IF value = <<"t", "r", "a", "n", "s", "f", "e", "r">> THEN "transfer"
    ELSE "ValueError"

\* The validations of get_filtered_transactions in their order: the detail
\* of the HTTPException raised, "ok" when the query is built. A filter that
\* is None or empty is not applied.
get_filtered_transactions_check(user_id, q, now) ==
    IF q.account_name # <<>> /\ NamedLike(accounts, user_id, q.account_name) = {}
    THEN "Account with name '{account_name}' not found"
    ELSE IF q.category_name # <<>> /\ NamedLike(categories, user_id, q.category_name) = {}
    THEN "Category with name '{category_name}' not found"
    ELSE IF q.transaction_type # <<>> /\ TransactionTypeOf(lower(q.transaction_type)) = "ValueError"
    THEN "Invalid transaction type: {transaction_type}"
    ELSE IF /\ q.date_filter_type # <<>>
            /\ calculate_date_range(q.date_filter_type, now) = [raises |-> "ValueError"]
    THEN "Invalid period: '{period}'. Must be one of: day, week, month, year, all"
    ELSE IF q.order_by \notin {"created_at", "transaction_date", "amount"}
    THEN "Invalid order_by field. Must be one of: created_at, transaction_date, amount"
    ELSE "ok"

\* The rows the query of get_filtered_transactions selects.
get_filtered_transactions(user_id, q, now) ==
    LET range == calculate_date_range(q.date_filter_type, now)
        start_date == IF q.date_filter_type # <<>> THEN range.start_date ELSE q.start_date
        end_date == IF q.date_filter_type # <<>> THEN range.end_date ELSE q.end_date
    IN  { t \in DOMAIN transactions :
            LET row == transactions[t]
            IN  /\ row.user_id = user_id
                /\ q.account_name # <<>> =>
                      \/ row.account_id \in NamedLike(accounts, user_id, q.account_name)
                      \/ row.destination_account_id
                            \in NamedLike(accounts, user_id, q.account_name)
                /\ q.category_name # <<>> =>
                      row.category_id \in NamedLike(categories, user_id, q.category_name)
                /\ q.transaction_type # <<>> =>
                      row.transaction_type = TransactionTypeOf(lower(q.transaction_type))
                /\ start_date # None => row.transaction_date >= start_date
                /\ end_date # None => row.transaction_date <= end_date }

\* query.order_by(...).all(): the rows in an order the sort allows; rows of
\* equal key come in any order.
Ordered(rows, order_by, sort_order) ==
    { order \in [1..Cardinality(rows) -> rows] :
        /\ \A i, j \in 1..Cardinality(rows) : i # j => order[i] # order[j]
        /\ \A i, j \in 1..Cardinality(rows) :
              i < j =>
                  IF lower(sort_order) = <<"d", "e", "s", "c">>
                  THEN transactions[order[i]][order_by] >= transactions[order[j]][order_by]
                  ELSE transactions[order[i]][order_by] <= transactions[order[j]][order_by] }

\* query.offset(skip).limit(n).all()
Fetch(order, skip, n) ==
    [ i \in 1..(IF Len(order) - skip < n
                 THEN (IF Len(order) > skip THEN Len(order) - skip ELSE 0)
                 ELSE n) |-> order[skip + i] ]

\* The page fetched with exactly limit rows, no row more to probe for a
\* next page.
PageWithoutProbe(order, skip, limit) == Fetch(order, skip, limit)

\* The rows get_transactions fetches for a page: one more than limit.
Page(order, skip, limit) == Fetch(order, skip, limit + 1)

\* GET /cuan/transactions: the response for one order of the rows.
get_transactions_response(user, q, now, order) ==
    LET check == get_filtered_transactions_check(user, q, now)
    IN  IF check # "ok"
        THEN [ status |-> 200, data |-> <<>>, total_count |-> 0, has_more |-> FALSE,
               limit |-> q.limit, skip |-> q.skip, message |-> check ]
        ELSE LET fetched == Page(order, q.skip, q.limit)
                 has_more == Len(fetched) > q.limit
             IN  [ status |-> 200,
                   data |-> IF has_more THEN SubSeq(fetched, 1, q.limit) ELSE fetched,
                   total_count |-> Len(order),
                   has_more |-> has_more,
                   limit |-> q.limit, skip |-> q.skip,
                   message |-> "Transactions retrieved successfully" ]

\* GET /cuan/transactions, answered.
get_transactions(w, user, q, now) ==
    /\ UNCHANGED tables
    /\ \E order \in IF get_filtered_transactions_check(user, q, now) # "ok"
                    THEN {<<>>}
                    ELSE Ordered(get_filtered_transactions(user, q, now),
                                 q.order_by, q.sort_order) :
          Serve(w, [op |-> "get_transactions", pc |-> "returned", user |-> user,
                    q |-> q, now |-> now,
                    response |-> get_transactions_response(user, q, now, order)])

\* A balance query that consumes the rows it summed: the summary is
\* answered and the rows of the account are removed.
get_account_balance_consuming(w, user, id) ==
    /\ accounts' = accounts
    /\ categories' = categories
    /\ transactions' =
          IF get_account_balance_check(user, id) # "ok" THEN transactions
          ELSE Without(transactions, BalanceRows(id, user))
    /\ Serve(w, [op |-> "get_account_balance", pc |-> "returned", user |-> user,
                  account_id |-> id,
                  response |->
                    IF get_account_balance_check(user, id) # "ok"
                    THEN [status |-> 404, detail |-> get_account_balance_check(user, id)]
                    ELSE [status |-> 200, data |-> calculate_account_balance(id, user)]])

\* GET /cuan/accounts/{id}/balance, answered: the summary, or the 404.
get_account_balance(w, user, id) ==
    /\ UNCHANGED tables
    /\ Serve(w, [op |-> "get_account_balance", pc |-> "returned", user |-> user,
                  account_id |-> id,
                  response |->
                    IF get_account_balance_check(user, id) # "ok"
                    THEN [status |-> 404, detail |-> get_account_balance_check(user, id)]
                    ELSE [status |-> 200, data |-> calculate_account_balance(id, user)]])

\* ------------------------------------------------------------ SpecQueries
\* The two read handlers over a stored ledger: a credit card and a wallet
\* with one category and up to three transactions, each answer held by its
\* worker until the session closes. Names are strings of characters here.
Visa == <<"V", "i", "s", "a">>
Wallet == <<"W", "a", "l", "l", "e", "t">>
Deli == <<"D", "e", "l", "i">>
LedgerTransactionIds == 1..(MaxTransactions + 1)

\* The wallet is the caller's own or another user's.
LedgerAccounts(owner) ==
    [ id \in AccountIds |->
        IF id = 1
        THEN [name |-> Visa, type |-> "credit_card", limit |-> 2, user_id |-> "u1"]
        ELSE [name |-> Wallet, type |-> "bank_account", limit |-> None,
              user_id |-> owner] ]

LedgerCategories ==
    [ id \in CategoryIds |-> [name |-> Deli, type |-> "expense", user_id |-> "u1"] ]

\* The row a primary key holds when it is stored: the card's initial
\* income, an expense on the card in the category, and a row of the
\* wallet: a transfer to the card, or an income of the other user.
LedgerRow(id, owner) ==
    LET created_at == Ticks(2025, 1, 1, TicksPerDay - 1) + id
    IN  IF id = 1
        THEN [ transaction_type |-> "income", amount |-> 2, transfer_fee |-> 0,
               account_id |-> 1, category_id |-> None,
               destination_account_id |-> None, user_id |-> "u1",
               transaction_date |-> Ticks(2024, 12, 31, 1),
               created_at |-> created_at ]
        ELSE IF id = 2
        THEN [ transaction_type |-> "expense", amount |-> 1, transfer_fee |-> 0,
               account_id |-> 1, category_id |-> 1,
               destination_account_id |-> None, user_id |-> "u1",
               transaction_date |-> Ticks(2025, 1, 1, 1),
               created_at |-> created_at ]
        ELSE IF owner = "u1"
        THEN [ transaction_type |-> "transfer", amount |-> 1, transfer_fee |-> 0,
               account_id |-> 2, category_id |-> None,
               destination_account_id |-> 1, user_id |-> "u1",
               transaction_date |-> Ticks(2025, 1, 1, 2),
               created_at |-> created_at ]
        ELSE [ transaction_type |-> "income", amount |-> 1, transfer_fee |-> 0,
               account_id |-> 2, category_id |-> None,
               destination_account_id |-> None, user_id |-> owner,
               transaction_date |-> Ticks(2025, 1, 1, 1),
               created_at |-> created_at ]

InitQueries ==
    /\ \E owner \in Users :
          /\ accounts = LedgerAccounts(owner)
          /\ \E stored \in SUBSET LedgerTransactionIds :
                transactions = [id \in stored |-> LedgerRow(id, owner)]
    /\ categories = LedgerCategories
    /\ requests = [w \in Workers |-> Idle]

\* The query parameters a caller sends: each filter absent, matching or
\* failing its validation; the sort field valid or not; both directions;
\* pages of up to two rows.
QueryNow == [year |-> 2025, month |-> 1, day |-> 1, tick |-> 1]
QueryParams ==
    [ account_name : {<<>>, <<"V", "I">>, <<"x">>},
      category_name : {<<>>, <<"d", "e">>, <<"x">>},
      transaction_type : {<<>>, <<"E", "x", "p", "e", "n", "s", "e">>, <<"f", "e", "e">>},
      date_filter_type : {<<>>, <<"Y", "e", "a", "r">>, <<"e", "r", "a">>},
      start_date : {None, Ticks(2025, 1, 1, 0)},
      end_date : {None, Ticks(2025, 1, 1, 1)},
      order_by : {"amount", "id"},
      sort_order : {<<"d", "e", "s", "c">>, <<"a", "s", "c">>},
      skip : 0..MaxTransactions,
      limit : 0..MaxTransactions ]

\* A balance is answered while no worker holds anything but a balance.
BalancesOnly ==
    \A v \in Workers :
        requests[v] = Idle \/ requests[v].op = "get_account_balance"

NextQueries ==
    \/ AllIdle /\ \E w \in Workers, q \in QueryParams :
                     get_transactions(w, "u1", q, QueryNow)
    \/ BalancesOnly /\ \E w \in Workers, user \in Users, id \in AccountIds :
                          requests[w] = Idle /\ get_account_balance(w, user, id)
    \/ \E w \in Workers : close(w)

SpecQueries == InitQueries /\ [][NextQueries]_vars

\* ------------------------------------------------------------ SpecTransfers
\* validate_transfer called on a stored ledger with the fields of a payload:
\* what it returns (the id of the destination row, None for what is no
\* transfer) or the detail of what it raises.
validate_transfer_call(w, user, transaction) ==
    /\ UNCHANGED tables
    /\ LET check == validate_transfer(transaction.transaction_type,
                        transaction.destination_account_id, transaction.account_id,
                        transaction.transfer_fee, user)
       IN  Serve(w, [op |-> "validate_transfer", pc |-> "returned", user |-> user,
                     transaction |-> transaction,
                     result |->
                       IF check # "ok" THEN [raises |-> check]
                       ELSE IF transaction.transaction_type # "transfer"
                       THEN [returns |-> None]
                       ELSE [returns |-> transaction.destination_account_id]])

\* The fields it is called with: every type, a destination that is absent,
\* a stored account or no account, a fee of every sign or null.
TransferPayloads ==
    TransactionCreate(TransactionType, {1}, {None, -1, 0, 1}, {None},
                      AccountIds \cup {None, MaxAccounts + 1})

NextTransfers ==
    \/ AllIdle /\ \E w \in Workers, user \in Users, transaction \in TransferPayloads :
                     validate_transfer_call(w, user, transaction)
    \/ \E w \in Workers : close(w)

SpecTransfers == InitQueries /\ [][NextTransfers]_vars

\* ------------------------------------------------------------ SpecUpdates
\* One user whose cards have limits of 1 and 2. The requests are served one
\* after the other; the worker that served an update_transaction holds its
\* answer until the session closes.

\* PUT /cuan/transactions/{id}, answered: 200 with the message, or the
\* detail of the error.
update_transaction_call(w, user, id, transaction_update) ==
    /\ update_transaction(user, id, transaction_update)
    /\ Serve(w, [op |-> "update_transaction", pc |-> "returned", user |-> user,
                 id |-> id, transaction_update |-> transaction_update,
                 detail |-> update_transaction_check(user, id, transaction_update)])

LimitPayloads == [type : {"bank_account", "credit_card"}, limit : {None, 1, 2}]
UpdatePayloads ==
    TransactionCreate(TransactionType, {1}, {0}, {None}, AccountIds \cup {None})

NextUpdates ==
    \/ /\ AllIdle
       /\ \/ \E account \in LimitPayloads : Serial(create_account("u1", account))
          \/ \E id \in AccountIds, account \in LimitPayloads :
                Serial(update_account("u1", id, account))
          \/ \E id \in AccountIds : Serial(delete_account("u1", id))
          \/ \E transaction \in UpdatePayloads :
                Serial(create_transaction("u1", transaction))
          \/ \E id \in TransactionIds : Serial(delete_transaction("u1", id))
          \/ \E w \in Workers, id \in TransactionIds, transaction \in UpdatePayloads :
                update_transaction_call(w, "u1", id, transaction)
    \/ \E w \in Workers : close(w)

SpecUpdates == Init /\ [][NextUpdates]_vars

\* ------------------------------------------------------------ the claims
\* Every payload the claims quantify over.
AnyAccountPayload == [type : TrxAccountType, limit : {None, 0, 1, 2}]
AnyTransactionPayload ==
    TransactionCreate(TransactionType, {1, 2}, {None, -1, 0, 1},
                      CategoryIds \cup {None}, AccountIds \cup {None})

\* The totals of an account as its owner reads them (get_account_balance).
BalanceOf(a) == calculate_account_balance(a, accounts[a].user_id)

\* The rows an account is the source of, of one type.
SourceRows(a, type) ==
    { t \in DOMAIN transactions :
        /\ transactions[t].account_id = a
        /\ transactions[t].transaction_type = type }

\* The transfers an account is the destination of.
TransfersInto(a) ==
    { t \in DOMAIN transactions :
        /\ transactions[t].destination_account_id = a
        /\ transactions[t].transaction_type = "transfer" }

AmountOf == [t \in DOMAIN transactions |-> transactions[t].amount]
FeeOf == [t \in DOMAIN transactions |-> transactions[t].transfer_fee]

\* C1: for every account, the totals of calculate_account_balance are the
\* sums over the rows the account is the source of (income, expense,
\* transfer amount and fee) and over the transfers into it, and the balance
\* is income - expenses - transfers out - fees + transfers in.
C1_TotalsAreSumsOverOwnRows ==
    \A a \in DOMAIN accounts :
        LET b == BalanceOf(a)
        IN  /\ b.total_income = SumOver(AmountOf, SourceRows(a, "income"))
            /\ b.total_expenses = SumOver(AmountOf, SourceRows(a, "expense"))
            /\ b.total_transfers_out = SumOver(AmountOf, SourceRows(a, "transfer"))
            /\ b.total_transfer_fees = SumOver(FeeOf, SourceRows(a, "transfer"))
            /\ b.total_transfers_in = SumOver(AmountOf, TransfersInto(a))
            /\ b.balance = b.total_income - b.total_expenses - b.total_transfers_out
                           - b.total_transfer_fees + b.total_transfers_in

\* C2: calculate_account_balance returns payable_balance = limit - balance
\* for a credit_card account with a limit, and no payable_balance (None) for
\* every other account, with or without a user scope.
C2_PayableBalanceIsLimitMinusBalance ==
    \A a \in DOMAIN accounts : \A scope \in {NoUser, accounts[a].user_id} :
        LET b == calculate_account_balance(a, scope)
        IN  IF accounts[a].type = "credit_card" /\ accounts[a].limit # None
            THEN b.payable_balance = accounts[a].limit - b.balance
            ELSE b.payable_balance = None

\* C2 witness: a credit card that owes something beside an account of
\* another type that has a balance.
C2_Witness ==
    \E a, b \in DOMAIN accounts :
        /\ accounts[a].type = "credit_card"
        /\ BalanceOf(a).payable_balance > 0
        /\ accounts[b].type # "credit_card"
        /\ BalanceOf(b).balance # 0
        /\ BalanceOf(b).payable_balance = None

\* The expense rows a step stores on credit cards: new rows, and rows an
\* update turned into an expense or raised the amount of.
Charged(t) ==
    /\ t \in DOMAIN transactions'
    /\ transactions'[t].transaction_type = "expense"
    /\ transactions'[t].account_id \in DOMAIN accounts
    /\ accounts[transactions'[t].account_id].type = "credit_card"
    /\ \/ t \notin DOMAIN transactions
       \/ transactions[t].transaction_type # "expense"
       \/ transactions'[t].amount > transactions[t].amount

\* C3: no accepted create or increase of an expense on a credit card leaves
\* the card's balance at zero or below.
C3_ChargeLeavesBalancePositive ==
    [][ \A t \in TransactionIds, a \in AccountIds :
          (Charged(t) /\ transactions'[t].account_id = a)
              => calculate_account_balance(a, NoUser)'.balance > 0
      ]_vars

\* C6: every stored transaction that is not a transfer has transfer_fee 0.
C6_NonTransferFeeIsZero ==
    \A t \in DOMAIN transactions :
        transactions[t].transaction_type # "transfer"
            => transactions[t].transfer_fee = 0

\* C7: no stored income or expense transaction has a destination account.
C7_NonTransferHasNoDestination ==
    \A t \in DOMAIN transactions :
        transactions[t].transaction_type # "transfer"
            => transactions[t].destination_account_id = None

\* C8: every stored income transaction with a category has an income
\* category, every stored expense transaction with a category an expense
\* category.
C8_CategoryTypeAgrees ==
    \A t \in DOMAIN transactions :
        LET row == transactions[t]
        IN  (row.category_id # None /\ row.transaction_type \in {"income", "expense"})
                => categories[row.category_id].type = row.transaction_type

\* C9: an account has a limit if and only if it is a credit card, and the
\* check of create_account and update_account rejects every payload that
\* has a limit without being a credit card or is a credit card without one.
C9_LimitIffCreditCard ==
    /\ \A a \in DOMAIN accounts :
          (accounts[a].limit # None) <=> (accounts[a].type = "credit_card")
    /\ \A p \in AnyAccountPayload :
          ((p.limit # None) <=> (p.type = "credit_card"))
              <=> (LimitCheck(p.type, p.limit) = "ok")

\* C9 witness: a credit card with its limit beside an account of another
\* type without one.
C9_Witness ==
    \E a, b \in DOMAIN accounts :
        /\ accounts[a].type = "credit_card" /\ accounts[a].limit # None
        /\ accounts[b].type # "credit_card" /\ accounts[b].limit = None

\* The rows that name account a, as source or as destination.
RowsNaming(a) ==
    { t \in DOMAIN transactions :
        \/ transactions[t].account_id = a
        \/ transactions[t].destination_account_id = a }

\* Account a as create_account leaves a new account: a credit card of limit
\* L with its one row, an income of L, balance L and nothing payable; any
\* other account with no row and balance 0.
AsCreated(a) ==
    IF accounts[a].type = "credit_card"
    THEN /\ \E t \in DOMAIN transactions :
              /\ RowsNaming(a) = {t}
              /\ transactions[t].transaction_type = "income"
              /\ transactions[t].amount = accounts[a].limit
              /\ transactions[t].account_id = a
         /\ BalanceOf(a).balance = accounts[a].limit
         /\ BalanceOf(a).payable_balance = 0
    ELSE /\ RowsNaming(a) = {}
         /\ BalanceOf(a).balance = 0

\* C10: the step that adds an account row (create_account, the only
\* endpoint that adds one) leaves the new account with exactly one
\* transaction, an income of its limit, balance = limit and payable_balance
\* = 0 when it is a credit card, and with no transaction and balance 0
\* otherwise; it adds no row for another account and changes no stored row.
C10_NewAccountHasInitialBalance ==
    [][ \A a \in AccountIds :
          (a \notin DOMAIN accounts /\ a \in DOMAIN accounts')
              => /\ AsCreated(a)'
                 /\ DOMAIN transactions' \ DOMAIN transactions \subseteq RowsNaming(a)'
                 /\ \A t \in DOMAIN transactions :
                       t \in DOMAIN transactions' /\ transactions'[t] = transactions[t]
      ]_vars

\* C10 witness: a new credit card with its initial transaction beside a new
\* account of another type with none.
C10_Witness ==
    \E a, b \in DOMAIN accounts :
        /\ accounts[a].type = "credit_card" /\ AsCreated(a)
        /\ accounts[b].type # "credit_card" /\ AsCreated(b)

\* An expense payload of the user on one of the user's credit cards.
CardExpense(user, p) ==
    /\ p.transaction_type = "expense"
    /\ AccountFound(p.account_id, user)
    /\ accounts[p.account_id].type = "credit_card"

\* The payload's category passes validate_category and
\* validate_transaction_category_match.
CategoryPasses(user, p) ==
    /\ CategoryFound(p.category_id, user)
    /\ CategoryMatches(p.transaction_type, p.category_id)

NoAvailableBalanceError ==
    "Cannot create expense with this credit card - no available balance"

\* C4 as stated: every create_transaction of an expense on a credit card
\* whose balance is <= 0 is rejected with the 'no available balance' error.
C4_ExhaustedCardAlwaysNoBalanceError ==
    \A user \in Users, p \in AnyTransactionPayload :
        (CardExpense(user, p) /\ BalanceOf(p.account_id).balance <= 0)
            => create_transaction_check(user, p) = NoAvailableBalanceError

\* C4 as amended: create_transaction of an expense on a credit card whose
\* balance is <= 0 is always rejected, with the 'no available balance'
\* error whenever the payload's category passes the category validations
\* that run first, and no step stores a new expense row on a card whose
\* balance was <= 0; on a card whose balance is positive an expense that
\* passes the other validations is accepted.
C4_ExhaustedCardIsRejected ==
    /\ [](\A user \in Users, p \in AnyTransactionPayload :
            CardExpense(user, p) =>
                LET check == create_transaction_check(user, p)
                    balance == BalanceOf(p.account_id).balance
                IN  /\ balance <= 0 =>
                          /\ check # "ok"
                          /\ CategoryPasses(user, p) => check = NoAvailableBalanceError
                    /\ ( /\ balance > 0
                         /\ CategoryPasses(user, p)
                         /\ validate_transfer(p.transaction_type,
                               p.destination_account_id, p.account_id,
                               p.transfer_fee, user) = "ok"
                         /\ ForeignKeysHold(p) ) => check = "ok")
    /\ [][ \A t \in TransactionIds, a \in DOMAIN accounts :
             ( /\ t \notin DOMAIN transactions /\ t \in DOMAIN transactions'
               /\ transactions'[t].transaction_type = "expense"
               /\ transactions'[t].account_id = a
               /\ accounts[a].type = "credit_card" )
                 => BalanceOf(a).balance > 0
         ]_vars

\* C4 witness: a credit card whose only rows are a transfer into it and an
\* expense on it, its balance back at zero: the transfer made the expense
\* possible, and the next expense is rejected.
C4_Witness ==
    \E a \in DOMAIN accounts, t1, t2 \in DOMAIN transactions :
        /\ accounts[a].type = "credit_card"
        /\ RowsNaming(a) = {t1, t2}
        /\ transactions[t1].transaction_type = "transfer"
        /\ transactions[t1].destination_account_id = a
        /\ transactions[t2].transaction_type = "expense"
        /\ transactions[t2].account_id = a
        /\ BalanceOf(a).balance = 0
        /\ \A p \in AnyTransactionPayload :
              (CardExpense(accounts[a].user_id, p) /\ p.account_id = a)
                  => create_transaction_check(accounts[a].user_id, p) # "ok"

\* C5 as stated: every stored transfer has a destination, which differs
\* from its source and is an existing account of the transfer's user.
C5_TransferHasOwnDestination ==
    \A t \in DOMAIN transactions :
        LET row == transactions[t]
        IN  row.transaction_type = "transfer" =>
                /\ row.destination_account_id # None
                /\ row.destination_account_id # row.account_id
                /\ AccountFound(row.destination_account_id, row.user_id)

\* C5 as amended: the destination of every stored transfer differs from its
\* source and is an existing account of the transfer's user, or is null;
\* and a transfer is stored without destination only by delete_account of
\* its destination account (ON DELETE SET NULL), never by create or update.
C5_TransferDestinationOwnOrCleared ==
    /\ [](\A t \in DOMAIN transactions :
            LET row == transactions[t]
            IN  row.transaction_type = "transfer" =>
                    /\ row.destination_account_id # row.account_id
                    /\ \/ row.destination_account_id = None
                       \/ AccountFound(row.destination_account_id, row.user_id))
    /\ [][ \A t \in DOMAIN transactions' :
             ( /\ transactions'[t].transaction_type = "transfer"
               /\ transactions'[t].destination_account_id = None )
                 => /\ t \in DOMAIN transactions
                    /\ transactions[t].transaction_type = "transfer"
                    /\ \/ transactions[t].destination_account_id = None
                       \/ transactions[t].destination_account_id \notin DOMAIN accounts'
         ]_vars

\* C5 witness: a transfer whose destination account was deleted beside a
\* transfer that has its destination.
C5_Witness ==
    \E t1, t2 \in DOMAIN transactions :
        /\ transactions[t1].transaction_type = "transfer"
        /\ transactions[t1].destination_account_id = None
        /\ transactions[t2].transaction_type = "transfer"
        /\ AccountFound(transactions[t2].destination_account_id, transactions[t2].user_id)

\* The balances of the accounts of one user, summed.
BalanceSum(user) ==
    SumOver([a \in DOMAIN accounts |-> BalanceOf(a).balance],
            { a \in DOMAIN accounts : accounts[a].user_id = user })

\* A step stores transaction t as a new transfer row.
TransferCreated(t) ==
    /\ t \notin DOMAIN transactions
    /\ t \in DOMAIN transactions'
    /\ transactions'[t].transaction_type = "transfer"

\* C11: the step that stores a new transfer (a successful
\* create_transaction) of amount a with fee f from account S to account D
\* lowers balance(S) by a + f, raises balance(D) by a, leaves the balance
\* of every other account unchanged, and lowers the sum of the user's
\* balances by exactly f.
C11_TransferMovesAmountAndChargesFee ==
    [][ \A t \in TransactionIds, S \in AccountIds, D \in AccountIds :
          ( /\ TransferCreated(t)
            /\ transactions'[t].account_id = S
            /\ transactions'[t].destination_account_id = D )
              => LET a == transactions'[t].amount
                     f == transactions'[t].transfer_fee
                 IN  /\ S # D
                     /\ accounts' = accounts
                     /\ BalanceOf(S)'.balance = BalanceOf(S).balance - (a + f)
                     /\ BalanceOf(D)'.balance = BalanceOf(D).balance + a
                     /\ \A o \in DOMAIN accounts \ {S, D} :
                           BalanceOf(o)'.balance = BalanceOf(o).balance
                     /\ \A user \in Users :
                           BalanceSum(user)' = BalanceSum(user)
                               - (IF transactions'[t].user_id = user THEN f ELSE 0)
      ]_vars

\* C11 witness: a stored transfer with a fee between two accounts, the
\* source below zero by amount and fee, the destination up by the amount.
C11_Witness ==
    \E t \in DOMAIN transactions :
        LET row == transactions[t]
        IN  /\ row.transaction_type = "transfer"
            /\ row.transfer_fee > 0
            /\ RowsNaming(row.account_id) = {t}
            /\ row.destination_account_id \in DOMAIN accounts
            /\ RowsNaming(row.destination_account_id) = {t}
            /\ BalanceOf(row.account_id).balance = 0 - (row.amount + row.transfer_fee)
            /\ BalanceOf(row.destination_account_id).balance = row.amount

\* The validation that update_account fails, "ok" when it fails none.
update_account_check(user, id, account_update) ==
    IF ~AccountFound(id, user) THEN "TrxAccount not found"
    ELSE LimitCheck(account_update.type, account_update.limit)

\* The payload that stores a transaction row, and the one that stores an
\* account row.
PayloadOf(row) ==
    [ transaction_type |-> row.transaction_type,
      amount |-> row.amount,
      transfer_fee |-> row.transfer_fee,
      account_id |-> row.account_id,
      category_id |-> row.category_id,
      destination_account_id |-> row.destination_account_id ]
AccountPayloadOf(row) == [type |-> row.type, limit |-> row.limit]

\* C12: whenever create_transaction, update_transaction, create_account or
\* update_account fails a validation (account or category not found,
\* category type mismatch, credit-card guard, transfer rules, limit rules),
\* the stored accounts, categories and transactions are exactly what they
\* were. Read from the side of the tables: every step that adds or rewrites
\* an account or a transaction is the step of a request whose payload, the
\* one the new row shows, passes every validation of its handler on the
\* tables as they were.
C12_FailedValidationWritesNothing ==
    [][ /\ \A a \in DOMAIN accounts' :
              LET p == AccountPayloadOf(accounts'[a])
              IN  /\ a \notin DOMAIN accounts => LimitCheck(p.type, p.limit) = "ok"
                  /\ (a \in DOMAIN accounts /\ accounts'[a] # accounts[a])
                        => update_account_check(accounts[a].user_id, a, p) = "ok"
        /\ (accounts' = accounts /\ categories' = categories) =>
              \A t \in DOMAIN transactions' :
                  LET p == PayloadOf(transactions'[t])
                      user == transactions'[t].user_id
                  IN  /\ t \notin DOMAIN transactions
                            => create_transaction_check(user, p) = "ok"
                      /\ (t \in DOMAIN transactions /\ transactions'[t] # transactions[t])
                            => update_transaction_check(user, t, p) = "ok"
      ]_vars

\* The details of the errors the payloads of a set get from
\* create_transaction and, for the stored transactions, update_transaction.
CreateErrors(user, payloads) ==
    { create_transaction_check(user, p) : p \in payloads } \ {"ok"}
UpdateErrors(user, payloads) ==
    { update_transaction_check(user, id, p) :
        id \in DOMAIN transactions, p \in payloads } \ {"ok"}

\* C12 witness: a ledger with rows in every table on which the requests on
\* offer fail each kind of validation: account not found, category type
\* mismatch, both credit-card guards, a transfer rule and both limit rules.
C12_Witness ==
    /\ DOMAIN accounts # {} /\ DOMAIN categories # {} /\ DOMAIN transactions # {}
    /\ { "TrxAccount not found",
          "Expense transactions must use an expense category",
          NoAvailableBalanceError,
          "Destination account is required for transfers" }
            \subseteq CreateErrors("u1", CategorizedPayloads \cup TransactionPayloads)
    /\ "Insufficient credit card balance for this update"
            \in UpdateErrors("u1", CategorizedPayloads)
    /\ \E id \in DOMAIN accounts :
          { "Credit card accounts must have a limit.",
            "Account type cannot have a limit" }
            \subseteq { update_account_check("u1", id, p) : p \in AccountPayloads }

\* The initial balancing transaction of account a is stored.
HasInitialTransaction(a) ==
    \E t \in DOMAIN transactions :
        /\ transactions[t].account_id = a
        /\ transactions[t].transaction_type = "income"
        /\ transactions[t].amount = accounts[a].limit

\* C13: no state that a concurrent request can observe, or that a request
\* failing part-way leaves behind, contains a credit_card account without
\* its initial balancing transaction: create_account persists the account,
\* the 'Other' category and the transaction within one transaction
\* boundary.
C13_CardNeverWithoutInitialTransaction ==
    \A a \in DOMAIN accounts :
        accounts[a].type = "credit_card" => HasInitialTransaction(a)

\* Worker w holds a create_transaction that passed its validations for an
\* expense on credit card a and is about to commit.
HoldsCardExpense(w, a) ==
    /\ requests[w] # Idle
    /\ requests[w].op = "create_transaction"
    /\ requests[w].transaction.transaction_type = "expense"
    /\ requests[w].transaction.account_id = a
    /\ requests[w].balance # None

\* C14: two concurrent create_transaction requests for expenses on the same
\* credit card can both pass the balance guard and both be stored, reaching
\* a ledger no execution of the two one after the other reaches. In parts:
\* a request passes the guard only on reading a positive balance; its
\* commit stores the row without reading the balance again, whatever the
\* other requests committed since; and a commit made with the balance still
\* as the guard read it (the two requests one after the other) never takes
\* the card below zero, the amount being within the balance read.
C14_GuardThenCommitIsNotAtomic ==
    /\ [](\A w \in Workers, a \in AccountIds :
            HoldsCardExpense(w, a) => requests[w].balance > 0)
    /\ [][ \A w \in Workers, a \in DOMAIN accounts :
             (HoldsCardExpense(w, a) /\ requests'[w] = Idle) =>
                 /\ \E t \in DOMAIN transactions' \ DOMAIN transactions :
                       transactions'[t] =
                           TransactionRow(requests[w].transaction, requests[w].user)
                 /\ BalanceOf(a)'.balance =
                       BalanceOf(a).balance - requests[w].transaction.amount
                 /\ ( /\ requests[w].balance = BalanceOf(a).balance
                      /\ requests[w].transaction.amount <= requests[w].balance )
                       => BalanceOf(a)'.balance >= 0
         ]_vars

\* C14 witness: a credit card of limit 1 whose rows are its initial income
\* of 1 and two expenses of 1: both expenses passed the guard on balance 1,
\* and the card is at -1.
C14_Witness ==
    \E a \in DOMAIN accounts :
        /\ accounts[a].type = "credit_card"
        /\ accounts[a].limit = 1
        /\ Cardinality(RowsNaming(a)) = 3
        /\ Cardinality(SourceRows(a, "income")) = 1
        /\ Cardinality(SourceRows(a, "expense")) = 2
        /\ \A t \in RowsNaming(a) : transactions[t].amount = 1
        /\ BalanceOf(a).balance = -1
        /\ \A w \in Workers : requests[w] = Idle

\* The details of the 404 responses.
NotFound ==
    { "TrxAccount not found", "TrxCategory not found", "Transaction not found",
      "Destination account not found" }

\* A key that no row of any table has.
AbsentId == MaxAccounts + MaxCategories + MaxTransactions + 1

\* The rows of a table that another user owns.
Foreign(table, user) == { i \in DOMAIN table : table[i].user_id # user }

\* What create_transaction and update_transaction answer to payload p equals
\* what they answer to payload q.
SameAnswer(user, p, q) ==
    /\ create_transaction_check(user, p) = create_transaction_check(user, q)
    /\ \A id \in TransactionIds :
          update_transaction_check(user, id, p) = update_transaction_check(user, id, q)

\* The transaction payloads that name rows: every type, account, category
\* and destination, a fee that is null, negative or zero.
NamingPayloads ==
    TransactionCreate(TransactionType, {1}, {None, -1, 0},
                      CategoryIds \cup {None}, AccountIds \cup {None})

\* create_transaction and update_transaction answer payload p with a 404,
\* the answer they give payload q.
NotFoundAs(user, p, q) ==
    /\ create_transaction_check(user, p) \in NotFound
    /\ \A id \in TransactionIds : update_transaction_check(user, id, p) \in NotFound
    /\ SameAnswer(user, p, q)

\* Every request of the user but the transfers to a foreign destination:
\* naming a foreign account, category or transaction is a 404, the same
\* answer as for a key that no row has.
ForeignIsNotFound(user) ==
    /\ \A a \in Foreign(accounts, user) :
          /\ get_account_balance_check(user, a) = "TrxAccount not found"
          /\ delete_account_check(user, a) = "TrxAccount not found"
          /\ \A p \in AnyAccountPayload :
                update_account_check(user, a, p) = "TrxAccount not found"
    /\ \A c \in Foreign(categories, user) :
          category_check(user, c) = "TrxCategory not found"
    /\ \A t \in Foreign(transactions, user) :
          /\ delete_transaction_check(user, t) = "Transaction not found"
          /\ \A p \in NamingPayloads :
                update_transaction_check(user, t, p) = "Transaction not found"
    /\ \A p \in NamingPayloads :
          /\ p.account_id \in Foreign(accounts, user) =>
                /\ create_transaction_check(user, p) = "TrxAccount not found"
                /\ NotFoundAs(user, p, [p EXCEPT !.account_id = AbsentId])
          /\ p.category_id \in Foreign(categories, user) =>
                NotFoundAs(user, p, [p EXCEPT !.category_id = AbsentId])

\* The transfer payloads whose destination is an account of another user.
ForeignTransfers(user) ==
    { p \in NamingPayloads :
        /\ p.transaction_type = "transfer"
        /\ p.destination_account_id \in Foreign(accounts, user) }

\* C15 as stated: every operation that names an account, category or
\* transaction of a different user, a transfer's destination included,
\* fails with NotFound.
C15_ForeignAlwaysNotFound ==
    \A user \in Users :
        /\ ForeignIsNotFound(user)
        /\ \A p \in ForeignTransfers(user) :
              /\ create_transaction_check(user, p) \in NotFound
              /\ \A id \in TransactionIds :
                    update_transaction_check(user, id, p) \in NotFound

\* C15 as amended: every operation that names an account, category or
\* transaction of a different user fails exactly as if no row had that key,
\* and stores nothing: no step that changes a table is the step of a
\* handler on a foreign row. The failure is NotFound, except for a transfer
\* to a foreign destination whose transfer_fee is null or negative: it
\* fails on the fee, before validate_transfer looks its destination up.
C15_ForeignIsAsAbsent ==
    /\ [](\A user \in Users :
            /\ ForeignIsNotFound(user)
            /\ \A p \in ForeignTransfers(user) :
                  /\ create_transaction_check(user, p) # "ok"
                  /\ \A id \in TransactionIds :
                        update_transaction_check(user, id, p) # "ok"
                  /\ SameAnswer(user, p, [p EXCEPT !.destination_account_id = AbsentId])
                  /\ (p.transfer_fee # None /\ p.transfer_fee >= 0) =>
                        /\ create_transaction_check(user, p) \in NotFound
                        /\ \A id \in TransactionIds :
                              update_transaction_check(user, id, p) \in NotFound)
    /\ [][ \/ UNCHANGED tables
            \/ \A user \in Users :
                  /\ \A a \in Foreign(accounts, user) :
                        /\ ~delete_account(user, a)
                        /\ \A p \in UserAccountPayloads : ~update_account(user, a, p)
                  /\ \A c \in Foreign(categories, user) :
                        /\ ~delete_category(user, c)
                        /\ \A p \in UserCategoryPayloads : ~update_category(user, c, p)
                  /\ \A t \in Foreign(transactions, user) :
                        ~delete_transaction(user, t)
         ]_vars

\* C15 witness: each user owns an account, one of them a transaction and a
\* category too, so that every request of the other names foreign rows.
C15_Witness ==
    \E a, b \in DOMAIN accounts :
        /\ accounts[a].user_id = "u1"
        /\ accounts[b].user_id = "u2"
        /\ Foreign(transactions, "u2") # {}
        /\ Foreign(categories, "u2") # {}
        /\ ForeignTransfers("u1") # {}
        /\ ForeignTransfers("u2") # {}

\* calculate_account_balance answers for account a with a summary: every
\* total and the balance a number, payable_balance a number or None.
BalanceSucceeds(a) ==
    LET b == BalanceOf(a)
    IN  /\ get_account_balance_check(accounts[a].user_id, a) = "ok"
        /\ { b.balance, b.total_income, b.total_expenses, b.total_transfers_in,
              b.total_transfers_out, b.total_transfer_fees } \subseteq Int
        /\ b.payable_balance \in Int

\* C16: after delete_account(A), account A and every transaction whose
\* source was A are gone, no stored transaction references A (the others
\* are kept, their destination cleared when it was A), and
\* calculate_account_balance succeeds for every remaining account; in
\* every state each stored transaction names accounts that exist.
C16_DeleteAccountLeavesNoReference ==
    /\ [](\A t \in DOMAIN transactions :
            /\ transactions[t].account_id \in DOMAIN accounts
            /\ transactions[t].destination_account_id \in DOMAIN accounts \cup {None})
    /\ [][ \A A \in DOMAIN accounts :
             A \notin DOMAIN accounts' =>
                 /\ \A t \in DOMAIN transactions' :
                       /\ transactions'[t].account_id # A
                       /\ transactions'[t].destination_account_id # A
                 /\ \A t \in DOMAIN transactions :
                       IF transactions[t].account_id = A
                       THEN t \notin DOMAIN transactions'
                       ELSE /\ t \in DOMAIN transactions'
                            /\ transactions'[t] =
                                 IF transactions[t].destination_account_id = A
                                 THEN [transactions[t] EXCEPT !.destination_account_id = None]
                                 ELSE transactions[t]
                 /\ \A o \in DOMAIN accounts' : BalanceSucceeds(o)'
         ]_vars

\* C16 witness: the one remaining account is the source of a transfer
\* whose destination account was deleted; its balance is computed from
\* that row.
C16_Witness ==
    \E a \in DOMAIN accounts, t \in DOMAIN transactions :
        /\ DOMAIN accounts = {a}
        /\ DOMAIN transactions = {t}
        /\ transactions[t].transaction_type = "transfer"
        /\ transactions[t].account_id = a
        /\ transactions[t].destination_account_id = None
        /\ BalanceSucceeds(a)
        /\ BalanceOf(a).balance =
              0 - (transactions[t].amount + transactions[t].transfer_fee)

\* The answers of the listing and of the balance query that workers hold.
Listed(w) == Returned(w) /\ requests[w].op = "get_transactions"
Balanced(w) == Returned(w) /\ requests[w].op = "get_account_balance"
ListingCheck(w) ==
    get_filtered_transactions_check(requests[w].user, requests[w].q, requests[w].now)
Matching(w) ==
    get_filtered_transactions(requests[w].user, requests[w].q, requests[w].now)

\* C17: every validation failure raised while listing transactions (no
\* account of that name, no category of that name, an invalid
\* transaction_type, an unknown date_filter_type, an order_by outside the
\* whitelist) reaches the caller as an error response, a status of 400 or
\* more, never as a successful one.
C17_ListingFailureIsAnError ==
    \A w \in Workers :
        (Listed(w) /\ ListingCheck(w) # "ok") => requests[w].response.status >= 400

\* C18: the balance query writes nothing, the step that answers it leaves
\* accounts, categories and transactions as they were, and with no write
\* in between every answer for an account is the same: the totals, the
\* balance and the payable balance a worker holds are those computed from
\* the tables now, and two workers asked for the same account by the same
\* user hold identical answers, whatever was asked in between.
C18_BalanceQueryWritesNothing ==
    /\ [](\A w \in Workers :
            Balanced(w) =>
                LET user == requests[w].user
                    id == requests[w].account_id
                    response == requests[w].response
                IN  /\ IF get_account_balance_check(user, id) = "ok"
                       THEN /\ response.status = 200
                            /\ response.data = calculate_account_balance(id, user)
                       ELSE response.status = 404
                    /\ \A v \in Workers :
                          ( /\ Balanced(v)
                            /\ requests[v].user = user
                            /\ requests[v].account_id = id )
                          => requests[v].response = response)
    /\ [][ (\E w \in Workers : requests[w] = Idle /\ Balanced(w)')
              => UNCHANGED tables ]_vars

\* C18 witness: both workers hold the summary of the card for its owner,
\* an income of 2, an expense of 1 and a transfer of 1 received, and the
\* three rows are still stored.
C18_Witness ==
    /\ \A w \in Workers :
          /\ Balanced(w)
          /\ requests[w].user = "u1"
          /\ requests[w].account_id = 1
          /\ requests[w].response.status = 200
          /\ requests[w].response.data.total_income = 2
          /\ requests[w].response.data.total_expenses = 1
          /\ requests[w].response.data.total_transfers_in = 1
          /\ requests[w].response.data.balance = 2
          /\ requests[w].response.data.payable_balance = 0
    /\ DOMAIN transactions = LedgerTransactionIds

NowTicks(now) == Ticks(now.year, now.month, now.day, now.tick)
NextMonthTicks(now) ==
    IF now.month = 12 THEN Ticks(now.year + 1, 1, 1, 0)
    ELSE Ticks(now.year, now.month + 1, 1, 0)

\* The interval is the calendar period of the token that contains now.
CoversPeriod(token, now, start, end) ==
    /\ token = Day =>
          /\ start = Ticks(now.year, now.month, now.day, 0)
          /\ end = Ticks(now.year, now.month, now.day, TicksPerDay - 1)
    /\ token = Week =>
          /\ start % TicksPerDay = 0
          /\ ((start \div TicksPerDay) + 5) % 7 = 0
          /\ end = start + 7 * TicksPerDay - 1
    /\ token = Month =>
          /\ start = Ticks(now.year, now.month, 1, 0)
          /\ end + 1 = NextMonthTicks(now)
    /\ token = Year =>
          /\ start = Ticks(now.year, 1, 1, 0)
          /\ end + 1 = Ticks(now.year + 1, 1, 1, 0)
    /\ token = All =>
          /\ start = Ticks(2000, 1, 1, 0)
          /\ end = NowTicks(now)

C21_AmountAndFeeNonNegative ==
    \A t \in DOMAIN transactions :
        /\ transactions[t].amount >= 0
        /\ transactions[t].transfer_fee >= 0

\* C22: update_transaction applies the credit-card guard to every update
\* whose result is an expense on a credit card that the existing
\* transaction was not charging: when the update is stored, the balance of
\* the card before it minus the new amount is not negative, whether or not
\* the amount was raised.
C22_MovedExpenseIsGuarded ==
    [][ \A t \in DOMAIN transactions \cap DOMAIN transactions' :
          ( /\ accounts' = accounts
            /\ categories' = categories
            /\ transactions'[t] # transactions[t]
            /\ transactions'[t].transaction_type = "expense"
            /\ accounts[transactions'[t].account_id].type = "credit_card"
            /\ ~ ( /\ transactions[t].transaction_type = "expense"
                   /\ transactions[t].account_id = transactions'[t].account_id ) )
          => BalanceOf(transactions'[t].account_id).balance
                - transactions'[t].amount >= 0
      ]_vars

\* What the rules of a transfer ask of validate_transfer: the reason of the
\* first rule broken, in the order destination present, fee not negative,
\* source and destination different, destination an account of the user;
\* the destination when none is broken. A null fee is no negative fee.
FirstViolatedRule(user, transaction) ==
    IF transaction.destination_account_id = None
    THEN [raises |-> "Destination account is required for transfers"]
    ELSE IF transaction.transfer_fee # None /\ transaction.transfer_fee < 0
    THEN [raises |-> "Transfer fee cannot be negative"]
    ELSE IF transaction.account_id = transaction.destination_account_id
    THEN [raises |-> "Source and destination accounts cannot be the same for transfers"]
    ELSE IF ~ ( /\ transaction.destination_account_id \in DOMAIN accounts
                /\ accounts[transaction.destination_account_id].user_id = user )
    THEN [raises |-> "Destination account not found"]
    ELSE [returns |-> transaction.destination_account_id]

\* C23: for a transfer payload validate_transfer returns the destination
\* account exactly when no rule is broken, and otherwise rejects with the
\* reason of the first rule broken, in the order: destination missing, fee
\* negative, source equal to destination, destination not found for the
\* user.
C23_TransferRejectedByFirstRule ==
    \A w \in Workers :
        ( /\ Returned(w)
          /\ requests[w].op = "validate_transfer"
          /\ requests[w].transaction.transaction_type = "transfer" )
        => requests[w].result = FirstViolatedRule(requests[w].user, requests[w].transaction)

\* C27: for every reachable ledger and every account of a user, the
\* balance, the five totals and the payable balance that
\* get_accounts_with_balance reports for the account are those that
\* calculate_account_balance returns for it and that user.
C27_ListedBalanceIsAccountBalance ==
    \A a \in DOMAIN accounts :
        get_accounts_with_balance(accounts[a].user_id)[a]
            = calculate_account_balance(a, accounts[a].user_id)

\* What a user owns, and what the three balance endpoints report to them.
OwnAccounts(user) ==
    [ a \in { a \in DOMAIN accounts : accounts[a].user_id = user } |-> accounts[a] ]
OwnTransactions(user) ==
    [ t \in { t \in DOMAIN transactions : transactions[t].user_id = user } |->
        transactions[t] ]
ReportedTo(user) ==
    [ get_account_balance |->
          [ a \in DOMAIN OwnAccounts(user) |-> calculate_account_balance(a, user) ],
      get_accounts |-> get_accounts_with_balance(user),
      get_account_summary |-> get_account_summary(user) ]

\* C26: the balances and totals that get_account_balance, get_accounts and
\* get_account_summary report to a user depend only on that user's own
\* accounts and transactions: a step that leaves these as they were, whatever
\* another user did in it, changes no value reported to the user.
C26_ReportsDependOnOwnRowsOnly ==
    [][ \A user \in Users :
          ( /\ OwnAccounts(user)' = OwnAccounts(user)
            /\ OwnTransactions(user)' = OwnTransactions(user) )
          => ReportedTo(user)' = ReportedTo(user)
      ]_vars

\* C25: in every state reached by requests served one after the other the
\* balance of every credit card is zero or more, that is, its payable
\* balance is at most its limit.
C25_CardBalanceNeverNegative ==
    \A a \in DOMAIN accounts :
        (accounts[a].type = "credit_card" /\ accounts[a].limit # None) =>
            /\ BalanceOf(a).balance >= 0
            /\ BalanceOf(a).payable_balance <= accounts[a].limit

\* C28: in every reachable state the source account of every stored
\* transaction, its destination account when it has one and its category
\* when it has one belong to the user the transaction belongs to.
C28_ReferencesOwnedByOwner ==
    \A t \in DOMAIN transactions :
        LET row == transactions[t]
        IN  /\ AccountFound(row.account_id, row.user_id)
            /\ row.destination_account_id # None =>
                  AccountFound(row.destination_account_id, row.user_id)
            /\ row.category_id # None =>
                  /\ row.category_id \in DOMAIN categories
                  /\ categories[row.category_id].user_id = row.user_id

\* The transfers from one account to another.
TransfersFromTo(A, B) ==
    { t \in DOMAIN transactions :
        /\ transactions[t].transaction_type = "transfer"
        /\ transactions[t].account_id = A
        /\ transactions[t].destination_account_id = B }

\* C29: the step that deletes account A changes the balance of another
\* account B of the same user only by the transfers that went from A to B:
\* the balance of B afterwards is its balance before minus the amounts of
\* the transfers from A to B, and the transfers from B to A stay stored,
\* their destination cleared, and count as before in the total_transfers_out
\* and total_transfer_fees of B.
C29_DeleteAccountTakesOnlyItsTransfers ==
    [][ \A A \in DOMAIN accounts \ DOMAIN accounts' :
          \A B \in DOMAIN accounts' :
              accounts[B].user_id = accounts[A].user_id =>
                  /\ BalanceOf(B)'.balance =
                        BalanceOf(B).balance - SumOver(AmountOf, TransfersFromTo(A, B))
                  /\ \A t \in TransfersFromTo(B, A) :
                        /\ t \in DOMAIN transactions'
                        /\ transactions'[t] =
                              [transactions[t] EXCEPT !.destination_account_id = None]
                  /\ BalanceOf(B)'.total_transfers_out = BalanceOf(B).total_transfers_out
                  /\ BalanceOf(B)'.total_transfer_fees = BalanceOf(B).total_transfer_fees
      ]_vars

\* The balance of account a on a table of transactions: income and
\* transfers in, less expenses, transfers out and their fees, over the rows
\* of the account's user that name the account.
BalanceOn(table, a) ==
    LET rows == { t \in DOMAIN table :
                    /\ table[t].user_id = accounts[a].user_id
                    /\ \/ table[t].account_id = a
                       \/ table[t].destination_account_id = a }
        effect == [ t \in rows |->
            (IF table[t].transaction_type = "income" THEN table[t].amount ELSE 0)
            + (IF table[t].destination_account_id = a THEN table[t].amount ELSE 0)
            - (IF table[t].transaction_type = "expense" THEN table[t].amount ELSE 0)
            - (IF table[t].transaction_type = "transfer" /\ table[t].account_id = a
               THEN table[t].amount + table[t].transfer_fee ELSE 0) ]
    IN  SumOver(effect, rows)

\* The transactions as delete_transaction(id) followed by
\* create_transaction(P) of the same user would leave them.
DeletedThenCreated(id, P, user) ==
    LET deleted == Without(transactions, {id})
    IN  With(deleted, NewId(deleted, TransactionIds), TransactionRow(P, user))

\* A worker holds the answer of an update_transaction that succeeded.
Updated(w) ==
    /\ Returned(w)
    /\ requests[w].op = "update_transaction"
    /\ requests[w].detail = "ok"

\* C24: the step of a successful update_transaction(id, P) leaves under id
\* a row with exactly the fields of P, its id and its owner as they were,
\* changes no other transaction, no account and no category, and leaves
\* every account with the balance it would have had, had the old
\* transaction been deleted and P created.
C24_UpdateIsFullReplace ==
    /\ [](\A a \in DOMAIN accounts : BalanceOf(a).balance = BalanceOn(transactions, a))
    /\ [][ \A w \in Workers :
             (requests[w] = Idle /\ requests'[w] # Idle /\ Updated(w)') =>
                 LET id == requests'[w].id
                     P == requests'[w].transaction_update
                 IN  /\ DOMAIN transactions' = DOMAIN transactions
                     /\ PayloadOf(transactions'[id]) = P
                     /\ DOMAIN transactions'[id] = DOMAIN P \cup {"user_id"}
                     /\ transactions'[id].user_id = transactions[id].user_id
                     /\ \A t \in DOMAIN transactions \ {id} :
                           transactions'[t] = transactions[t]
                     /\ accounts' = accounts /\ categories' = categories
                     /\ \A a \in DOMAIN accounts :
                           BalanceOn(transactions', a) =
                               BalanceOn(DeletedThenCreated(id, P, requests'[w].user), a)
         ]_vars

\* C24 witness: the answer of an update that turned a stored income into a
\* transfer between the two accounts; the other transaction is stored too.
C24_Witness ==
    \E w \in Workers :
        /\ Updated(w)
        /\ Cardinality(DOMAIN transactions) = MaxTransactions
        /\ requests[w].transaction_update.transaction_type = "transfer"
        /\ PayloadOf(transactions[requests[w].id]) = requests[w].transaction_update
        /\ BalanceOf(requests[w].transaction_update.account_id).balance < 0
        /\ BalanceOf(requests[w].transaction_update.destination_account_id).balance > 0

\* C30: the step that rewrites an account row (a successful update_account)
\* changes the type and the limit of that account only: its owner, every
\* other account, every category and every transaction stay as they were,
\* so no balance and no total changes and no balancing transaction is
\* booked; the payable balance of the account is its new limit less its
\* unchanged balance, and between two limits of a card it moves by the
\* change of the limit.
C30_UpdateAccountChangesOnlyItsRow ==
    [][ \A a \in DOMAIN accounts \cap DOMAIN accounts' :
          accounts'[a] # accounts[a] =>
              /\ DOMAIN accounts' = DOMAIN accounts
              /\ \A o \in DOMAIN accounts \ {a} : accounts'[o] = accounts[o]
              /\ accounts'[a].user_id = accounts[a].user_id
              /\ transactions' = transactions
              /\ categories' = categories
              /\ \A o \in DOMAIN accounts :
                    /\ BalanceOn(transactions', o) = BalanceOn(transactions, o)
                    /\ [BalanceOf(o)' EXCEPT !.payable_balance = None]
                          = [BalanceOf(o) EXCEPT !.payable_balance = None]
              /\ BalanceOf(a)'.payable_balance =
                    IF accounts'[a].type = "credit_card"
                    THEN accounts'[a].limit - BalanceOf(a).balance
                    ELSE None
              /\ (accounts[a].type = "credit_card" /\ accounts'[a].type = "credit_card") =>
                    BalanceOf(a)'.payable_balance - BalanceOf(a).payable_balance
                        = accounts'[a].limit - accounts[a].limit
      ]_vars

\* C30 witness: a card of limit 2 whose only transaction is the initial
\* income of 1 it was created with: its limit was raised and nothing was
\* booked, the payable balance is 1.
C30_Witness ==
    \E a \in DOMAIN accounts :
        /\ accounts[a].type = "credit_card"
        /\ accounts[a].limit = 2
        /\ \E t \in DOMAIN transactions :
              /\ RowsNaming(a) = {t}
              /\ transactions[t] = InitialTransaction(a, 1, transactions[t].category_id, "u1")
              /\ transactions[t].category_id \in DOMAIN categories
        /\ BalanceOf(a).balance = 1
        /\ BalanceOf(a).payable_balance = 1

====
